---- MODULE Spec2Model ----
(***************************************************************************)
(* promql-cli: the interactive loop (RunInteractive), its progress         *)
(* indicator (PrintProgressingMark), the two-phase response decode         *)
(* (Client.Query) and the table projection (buildTable, sortedLabelNames,  *)
(* formatTimestamp).                                                       *)
(*                                                                         *)
(* The model follows the newest variant of each file: the client with the  *)
(* status check and the "string" result type, and the CLI whose header and *)
(* rows both go through sortedLabelNames.                                  *)
(***************************************************************************)
EXTENDS Integers, Sequences, FiniteSets, TLC

\* ---------------------------------------------------------------- bounds
\* Most samples (vector) or series (matrix) in one response.
MaxSeries == 2
\* Most points in one matrix series.
MaxPoints == 2
\* Most labels in a mapping handed to sortedLabelNames in SortSpec.
MaxSortLabels == 4
\* Most queries of one session in ProgressSpec.
MaxQueries == 2
\* Most ticks one ticker delivers in ProgressSpec.
MaxTicks == 2
\* Most invocations on one response body in DecodeSpec.
MaxCalls == 2

VARIABLES
    pc,       \* position of RunInteractive's loop
    body,     \* the response body Query read from the backend
    qr,       \* Query's first return value (*QueryResponse), NoResponse when nil
    err,      \* Query's second return value (error), NoError when nil
    table,    \* the Table built from qr
    out,      \* writes to c.out made in the current loop iteration
    sLabels,  \* SortSpec: the label mapping handed to sortedLabelNames
    sOrder,   \* SortSpec: the order in which `range labels` visited the keys
    sResult,  \* SortSpec: what sortedLabelNames returned
    sPc,      \* SortSpec: "call" before the call, "return" after it
    tasks,    \* the goroutines PrintProgressingMark started, each with its ticker
    dBody,    \* DecodeSpec: the response body decoded and projected repeatedly
    dCalls,   \* DecodeSpec: the outcome of every invocation on dBody so far
    dOther    \* DecodeSpec: a different body was decoded and projected as well

loopVars == <<pc, body, qr, err, table, out>>
sortVars == <<sLabels, sOrder, sResult, sPc>>
progressVars == <<tasks>>
decodeVars == <<dBody, dCalls, dOther>>
vars == <<pc, body, qr, err, table, out, sLabels, sOrder, sResult, sPc, tasks,
          dBody, dCalls, dOther>>

\* ------------------------------------------------------------ Go strings
\* Go compares strings byte by byte; the bytes of the label names used here.
NameBytes ==
    [ n \in {"__name__", "instance", "job", "le", "zone", "Env"} |->
        CASE n = "__name__" -> <<95, 95, 110, 97, 109, 101, 95, 95>>
          [] n = "instance" -> <<105, 110, 115, 116, 97, 110, 99, 101>>
          [] n = "job"      -> <<106, 111, 98>>
          [] n = "le"       -> <<108, 101>>
          [] n = "zone"     -> <<122, 111, 110, 101>>
          [] n = "Env"      -> <<69, 110, 118>> ]

RECURSIVE BytesLess(_, _)
BytesLess(a, b) ==
    IF b = <<>> THEN FALSE
    ELSE IF a = <<>> THEN TRUE
    ELSE IF Head(a) < Head(b) THEN TRUE
    ELSE IF Head(a) > Head(b) THEN FALSE
    ELSE BytesLess(Tail(a), Tail(b))

\* Go's s < t on strings.
StringLess(s, t) == BytesLess(NameBytes[s], NameBytes[t])

\* sort.StringsAreSorted on a two-element slice: no element is less than
\* the one before it.
StringsAreSorted2(s, t) == ~StringLess(t, s)

\* ------------------------------------------------------- map iteration
RECURSIVE Factorial(_)
Factorial(n) == IF n <= 1 THEN 1 ELSE n * Factorial(n - 1)

RECURSIVE Pick(_, _)
Pick(S, i) ==
    LET c == CHOOSE x \in S : TRUE
    IN  IF i = 0 THEN c ELSE Pick(S \ {c}, i - 1)

\* `for l := range labels`: Go visits the keys of a map in an unspecified
\* order. MapRange(S, k), k in 0..Factorial(|S|)-1, is the k-th order.
RECURSIVE MapRange(_, _)
MapRange(S, k) ==
    IF S = {} THEN <<>>
    ELSE LET n == Cardinality(S)
             x == Pick(S, k % n)
         IN  <<x>> \o MapRange(S \ {x}, k \div n)

MapOrders(S) == 0 .. (Factorial(Cardinality(S)) - 1)

\* ------------------------------------------------------ sortedLabelNames
\* A plain lexicographic comparison: no anchor for the metric name or "le".
lessPlain(labelI, labelJ) == StringLess(labelI, labelJ)

\* The comparison function handed to sort.Slice.
less(labelI, labelJ) ==
    IF labelI = "__name__" THEN TRUE
    ELSE IF labelJ = "__name__" THEN FALSE
    ELSE IF labelI = "le" THEN FALSE
    ELSE IF labelJ = "le" THEN TRUE
    ELSE StringsAreSorted2(labelI, labelJ)

Swap(data, i, j) ==
    [data EXCEPT ![i] = data[j], ![j] = data[i]]

\* sort.Slice on at most 12 elements is an insertion sort:
\*   for i := a+1; i < b; i++ {
\*     for j := i; j > a && less(j, j-1); j-- { swap(j, j-1) } }
RECURSIVE insertionInner(_, _)
insertionInner(data, j) ==
    IF j > 1 /\ less(data[j], data[j - 1])
    THEN insertionInner(Swap(data, j, j - 1), j - 1)
    ELSE data

RECURSIVE insertionOuter(_, _)
insertionOuter(data, i) ==
    IF i > Len(data) THEN data
    ELSE insertionOuter(insertionInner(data, i), i + 1)

sortSlice(data) == insertionOuter(data, 2)

\* sortedLabelNames(labels), the map visited in the k-th order.
sortedLabelNames(labels, k) == sortSlice(MapRange(DOMAIN labels, k))

\* --------------------------------------------------------------- labels
\* The names SortSpec draws label mappings from.
SortNames == {"__name__", "instance", "job", "le", "zone", "Env"}

\* The value the backend sends for label n in the v-th series of a response.
LabelValue(n, v) ==
    CASE n = "__name__" -> IF v = 1 THEN "up" ELSE "http_requests_bucket"
      [] n = "instance" -> IF v = 1 THEN "host1:9090" ELSE "host2:9090"
      [] n = "job"      -> IF v = 1 THEN "prometheus" ELSE "api"
      [] n = "le"       -> IF v = 1 THEN "0.5" ELSE "+Inf"
      [] n = "zone"     -> IF v = 1 THEN "eu" ELSE "us"
      [] n = "Env"      -> IF v = 1 THEN "prod" ELSE "dev"

\* A metric: a mapping from the names in K to their values.
Metric(K, v) == [n \in K |-> LabelValue(n, v)]

\* ------------------------------------------------------- response bodies
\* A JSON number or string inside a [timestamp, value] tuple. A number is
\* a timestamp in units of 100 ns (seconds with seven decimals).
JNum(n) == [t |-> "number", num |-> n, str |-> ""]
JStr(s) == [t |-> "string", num |-> 0, str |-> s]

\* The timestamp and value the backend sends for point j of series i.
Timestamp(i, j) == i * 100000000 + j * 10000000 + 1234567
SampleValue(i, j) ==
    CASE (i + j) % 4 = 0 -> "1"
      [] (i + j) % 4 = 1 -> "0.5"
      [] (i + j) % 4 = 2 -> "NaN"
      [] (i + j) % 4 = 3 -> "+Inf"

\* [<float timestamp>, "<string value>"]
GoodTuple(i, j) == <<JNum(Timestamp(i, j)), JStr(SampleValue(i, j))>>

\* Tuples that are JSON arrays but not [number, string].
BadTuples ==
    { <<>>,
      <<JNum(Timestamp(1, 1))>>,
      <<JStr(SampleValue(1, 1)), JNum(Timestamp(1, 1))>> }

\* A tuple with a third element: still [number, string, ...].
LongTuple == GoodTuple(1, 1) \o <<JStr("extra")>>

\* The key sets of the metrics in the responses: none, one plain name, with
\* and without each anchor, three plain names, both anchors.
KeySets ==
    { {}, {"job"}, {"job", "le"}, {"__name__", "job"},
      {"instance", "job", "zone"}, {"__name__", "job", "le"} }
LabelNames == UNION KeySets

\* One element of a vector or matrix payload: a JSON object with "metric"
\* and "value" (vector) or "values" (matrix). A key that is missing is <<>>.
SeriesObject(metric, value, values) ==
    [metric |-> metric, value |-> value, values |-> values]

\* data.result. kind "absent": the key is missing; "null": JSON null;
\* "string": a JSON string; "array": a JSON array, of numbers and strings
\* (prims) or of objects (objs).
Payload(kind, prims, objs) == [kind |-> kind, prims |-> prims, objs |-> objs]
AbsentPayload == Payload("absent", <<>>, <<>>)
NullPayload == Payload("null", <<>>, <<>>)
StringPayload == Payload("string", <<>>, <<>>)
TuplePayload(t) == Payload("array", t, <<>>)
ObjectsPayload(objs) == Payload("array", <<>>, objs)

ScalarPayloads ==
    {TuplePayload(t) : t \in {GoodTuple(1, 1), GoodTuple(1, 2), LongTuple} \cup BadTuples}

\* Vector payloads of well-formed samples, every sample with its own key set.
VectorPayloads ==
    UNION { { ObjectsPayload([i \in 1..n |->
                  SeriesObject(Metric(ks[i], i), GoodTuple(i, 1), <<>>)])
              : ks \in [1..n -> KeySets] }
            : n \in 0..MaxSeries }

\* Vector payloads with one sample whose "value" is not [number, string].
BadVectorPayloads ==
    UNION { { ObjectsPayload([i \in 1..n |->
                  SeriesObject(Metric(K, i),
                               IF i = b THEN bad ELSE GoodTuple(i, 1), <<>>)])
              : b \in 1..n, bad \in BadTuples, K \in KeySets }
            : n \in 1..MaxSeries }

\* Matrix payloads of well-formed points, every series with its own key set
\* and its own number of points.
MatrixPayloads ==
    UNION { { ObjectsPayload([i \in 1..n |->
                  SeriesObject(Metric(ks[i], i), <<>>,
                               [j \in 1..cs[i] |-> GoodTuple(i, j)])])
              : ks \in [1..n -> KeySets], cs \in [1..n -> 0..MaxPoints] }
            : n \in 0..MaxSeries }

\* Matrix payloads with one point that is not [number, string].
BadMatrixPayloads ==
    UNION { { ObjectsPayload([i \in 1..n |->
                  SeriesObject(Metric(K, i), <<>>,
                               [j \in 1..c |->
                                   IF i = b /\ j = p THEN bad ELSE GoodTuple(i, j)])])
              : b \in 1..n, p \in 1..c, bad \in BadTuples, K \in KeySets }
            : n \in 1..MaxSeries, c \in 1..MaxPoints }

\* A few payloads of every JSON shape.
SmallPayloads ==
    { AbsentPayload, NullPayload, StringPayload, TuplePayload(<<>>),
      TuplePayload(GoodTuple(1, 1)),
      ObjectsPayload(<<SeriesObject(Metric({"job"}, 1), GoodTuple(1, 1), <<>>)>>),
      ObjectsPayload(<<SeriesObject(Metric({"job"}, 1), <<>>, <<GoodTuple(1, 1)>>)>>) }

\* An envelope key that the body does not carry.
Absent == "<absent>"

\* A body the first decode accepts: a JSON object whose keys, when present,
\* have the JSON types of QueryResponse's fields.
Body(status, error, resultType, result) ==
    [valid |-> TRUE, status |-> status, error |-> error,
     resultType |-> resultType, result |-> result]

\* A body the first decode rejects: not JSON, or a key of the wrong type.
InvalidBody ==
    [valid |-> FALSE, status |-> Absent, error |-> Absent,
     resultType |-> Absent, result |-> AbsentPayload]

\* No body: the loop has not queried, or the request failed.
NoBody == [none |-> TRUE]

ResultTypes == {Absent, "scalar", "string", "vector", "matrix", "histogram"}

\* status and error as the backend pairs them, and with keys missing.
StatusAndError ==
    { <<"success", Absent>>, <<Absent, Absent>>,
      <<"error", "bad query">>, <<"error", Absent>> }

\* Every envelope with a few payloads of every shape.
CrossBodies ==
    { Body(se[1], se[2], rt, p) :
        se \in StatusAndError, rt \in ResultTypes, p \in SmallPayloads }

\* Successful responses whose payload has the shape resultType names.
ShapedBodies ==
    { Body("success", Absent, rt, p) : rt \in {"scalar", "string"}, p \in ScalarPayloads }
    \cup { Body("success", Absent, "vector", p) : p \in VectorPayloads \cup BadVectorPayloads }
    \cup { Body("success", Absent, "matrix", p) : p \in MatrixPayloads \cup BadMatrixPayloads }

Bodies == {InvalidBody} \cup CrossBodies \cup ShapedBodies

\* ---------------------------------------------------------- Client.Query
NoResponse == [nil |-> TRUE]
NoError == [nil |-> TRUE]

\* An error value: the return statement that made it and its text, the
\* pieces of the text in order.
Error(at, text) == [at |-> at, text |-> text]

\* The Result field: nil, or one of ResultScalar, ResultString, ResultVector,
\* ResultMatrix holding the decoded slice.
NilResult == [type |-> "nil", val |-> <<>>]
Result(type, val) == [type |-> type, val |-> val]

\* An element decoded into `any`: a float64, a string, or (for a JSON
\* object) a map.
AnyOf(prims, objs) ==
    IF objs # <<>>
    THEN [i \in 1..Len(objs) |-> [t |-> "object", num |-> 0, str |-> ""]]
    ELSE prims

\* json.Unmarshal into a []any, a []VectorTimeSeries or a []MatrixTimeSeries:
\* [ok, val]. Empty input and a JSON string are errors; null leaves the slice
\* nil; an array of numbers or strings does not decode into structs.
Unmarshal(raw, type) ==
    CASE raw.kind = "absent" -> [ok |-> FALSE, val |-> <<>>]
      [] raw.kind = "string" -> [ok |-> FALSE, val |-> <<>>]
      [] raw.kind = "null"   -> [ok |-> TRUE, val |-> <<>>]
      [] raw.kind = "array"  ->
            CASE type \in {"ResultScalar", "ResultString"} ->
                    [ok |-> TRUE, val |-> AnyOf(raw.prims, raw.objs)]
              [] type = "ResultVector" ->
                    IF raw.prims # <<>> THEN [ok |-> FALSE, val |-> <<>>]
                    ELSE [ok |-> TRUE,
                          val |-> [i \in 1..Len(raw.objs) |->
                                      [Metric |-> raw.objs[i].metric,
                                       Point |-> raw.objs[i].value]]]
              [] type = "ResultMatrix" ->
                    IF raw.prims # <<>> THEN [ok |-> FALSE, val |-> <<>>]
                    ELSE [ok |-> TRUE,
                          val |-> [i \in 1..Len(raw.objs) |->
                                      [Metric |-> raw.objs[i].metric,
                                       Points |-> raw.objs[i].values]]]

\* A key the body lacks leaves the field at its zero value.
FieldOf(v) == IF v = Absent THEN "" ELSE v

\* json.NewDecoder(resp.Body).Decode(&qr): the first decode.
decodeEnvelope(b) ==
    [Status |-> FieldOf(b.status),
     Error |-> FieldOf(b.error),
     Data |-> [ResultType |-> FieldOf(b.resultType),
               ResultRaw |-> b.result,
               Result |-> NilResult]]

\* One case of the switch: the second decode into `type`.
decodeInto(q, type) ==
    LET u == Unmarshal(q.Data.ResultRaw, type)
    IN  IF ~u.ok
        THEN [qr |-> NoResponse, err |-> Error("unmarshal", <<"json: ", type>>)]
        ELSE [qr |-> [q EXCEPT !.Data.Result = Result(type, u.val)],
              err |-> NoError]

unsupported(q) ==
    [qr |-> NoResponse,
     err |-> Error("unsupported", <<"unsupported result type: ", q.Data.ResultType>>)]

\* The switch without its "string" case.
decodeResultNoString(q) ==
    CASE q.Data.ResultType = "scalar" -> decodeInto(q, "ResultScalar")
      [] q.Data.ResultType = "vector" -> decodeInto(q, "ResultVector")
      [] q.Data.ResultType = "matrix" -> decodeInto(q, "ResultMatrix")
      [] OTHER -> unsupported(q)

\* The switch with a default case that returns the response as it is.
decodeResultLenient(q) ==
    CASE q.Data.ResultType = "scalar" -> decodeInto(q, "ResultScalar")
      [] q.Data.ResultType = "string" -> decodeInto(q, "ResultString")
      [] q.Data.ResultType = "vector" -> decodeInto(q, "ResultVector")
      [] q.Data.ResultType = "matrix" -> decodeInto(q, "ResultMatrix")
      [] OTHER -> [qr |-> q, err |-> NoError]

\* switch qr.Data.ResultType
decodeResult(q) ==
    CASE q.Data.ResultType = "scalar" -> decodeInto(q, "ResultScalar")
      [] q.Data.ResultType = "string" -> decodeInto(q, "ResultString")
      [] q.Data.ResultType = "vector" -> decodeInto(q, "ResultVector")
      [] q.Data.ResultType = "matrix" -> decodeInto(q, "ResultMatrix")
      [] OTHER -> unsupported(q)

\* Query without the status check: the switch runs on every decoded body.
QueryNoStatusCheck(b) ==
    IF ~b.valid
    THEN [qr |-> NoResponse, err |-> Error("decode", <<"json: QueryResponse">>)]
    ELSE decodeResult(decodeEnvelope(b))

\* Query from the response body on: [qr, err], one of them nil.
Query(b) ==
    IF ~b.valid
    THEN [qr |-> NoResponse, err |-> Error("decode", <<"json: QueryResponse">>)]
    ELSE LET q == decodeEnvelope(b)
         IN  IF q.Status = "error"
             THEN [qr |-> NoResponse, err |-> Error("backend", <<q.Error>>)]
             ELSE decodeResult(q)

\* client.Do failed: no body was read.
TransportError == Error("transport", <<"Get: connection refused">>)

\* ------------------------------------------------------- formatTimestamp
\* The nine digits of n, most significant first.
Digits9(n) == [i \in 1..9 |-> (n \div (10 ^ (9 - i))) % 10]

RECURSIVE TrimZeros(_)
TrimZeros(d) ==
    IF d # <<>> /\ d[Len(d)] = 0 THEN TrimZeros(SubSeq(d, 1, Len(d) - 1)) ELSE d

\* int64(timestamp * 1_000_000) truncates to whole microseconds (the
\* product is taken exactly here, without float64 rounding);
\* time.UnixMicro splits them into seconds and nanoseconds; RFC3339Nano
\* prints the second and the fraction without its trailing zeros. The cell
\* is [sec, frac]: the second the date and time are printed from, and the
\* digits after the decimal point.
formatTimestamp(timestamp) ==
    LET micros == timestamp \div 10
        sec == micros \div 1000000
        nsec == (micros % 1000000) * 1000
    IN  [sec |-> sec, frac |-> TrimZeros(Digits9(nsec))]

\* ------------------------------------------------------------ buildTable
EmptyTable == [Header |-> <<>>, Rows |-> <<>>]

\* What a call of buildTable ends in: a table, or a run-time panic.
Returned(t) == [panic |-> FALSE, table |-> t]
Panicked == [panic |-> TRUE, table |-> EmptyTable]

\* point[0].(float64) and point[1].(string): an index out of range or a
\* failed type assertion panics.
pointPanics(point) ==
    \/ Len(point) < 1
    \/ point[1].t # "number"
    \/ Len(point) < 2
    \/ point[2].t # "string"

\* The order of the c-th `range` over metric in a call whose orders start at k.
OrderOf(metric, k, c) == (k + c) % Factorial(Cardinality(DOMAIN metric))

\* The header built from the keys in the order the map yields them.
tableHeaderUnsorted(metric, k) ==
    <<"timestamp">> \o MapRange(DOMAIN metric, OrderOf(metric, k, 0)) \o <<"value">>

\* table.Header: "timestamp", the sorted label names of the first
\* sample or series, "value".
tableHeader(metric, k) ==
    <<"timestamp">> \o sortedLabelNames(metric, OrderOf(metric, k, 0)) \o <<"value">>

\* One row: the formatted timestamp, the value of every label of the row's
\* own metric in the order of sortedLabelNames(timeseries.Metric), the value.
newRow(point, metric, k, c) ==
    LET names == sortedLabelNames(metric, OrderOf(metric, k, c))
    IN  [Columns |-> <<formatTimestamp(point[1].num)>>
                     \o [n \in 1..Len(names) |-> metric[names[n]]]
                     \o <<point[2].str>>]

\* case ResultScalar, case ResultString
scalarTable(result) ==
    IF pointPanics(result) THEN Panicked
    ELSE Returned([Header |-> <<"timestamp", "value">>,
                   Rows |-> << [Columns |-> <<formatTimestamp(result[1].num),
                                              result[2].str>>] >>])

\* The rows of a vector without the row of its last sample.
vectorRowsDropLast(result, k) ==
    [i \in 1..(Len(result) - 1) |-> newRow(result[i].Point, result[i].Metric, k, i)]

\* for _, timeseries := range result: one row per sample.
vectorRows(result, k) ==
    [i \in 1..Len(result) |-> newRow(result[i].Point, result[i].Metric, k, i)]

\* case ResultVector
vectorTable(result, k) ==
    IF Len(result) = 0 THEN Returned(EmptyTable)
    ELSE IF \E i \in 1..Len(result) : pointPanics(result[i].Point) THEN Panicked
    ELSE Returned([Header |-> tableHeader(result[1].Metric, k),
                   Rows |-> vectorRows(result, k)])

\* The rows of one series with its first point alone.
seriesRowsFirstPoint(timeseries, k, i) ==
    IF Len(timeseries.Points) = 0 THEN <<>>
    ELSE <<newRow(timeseries.Points[1], timeseries.Metric, k, i + 1)>>

\* for _, point := range timeseries.Points: one row per point.
seriesRows(timeseries, k, i) ==
    [j \in 1..Len(timeseries.Points) |->
        newRow(timeseries.Points[j], timeseries.Metric, k, i + j)]

\* for _, timeseries := range result: the rows of the series from i on.
RECURSIVE matrixRows(_, _, _)
matrixRows(result, k, i) ==
    IF i > Len(result) THEN <<>>
    ELSE seriesRows(result[i], k, i) \o matrixRows(result, k, i + 1)

\* case ResultMatrix
matrixTable(result, k) ==
    IF Len(result) = 0 THEN Returned(EmptyTable)
    ELSE IF \E i \in 1..Len(result) :
               \E j \in 1..Len(result[i].Points) : pointPanics(result[i].Points[j])
         THEN Panicked
    ELSE Returned([Header |-> tableHeader(result[1].Metric, k),
                   Rows |-> matrixRows(result, k, 1)])

\* buildTable(qr), its map iterations in the orders from k on.
buildTable(q, k) ==
    IF q.Data.ResultRaw.kind = "absent" THEN Returned(EmptyTable)
    ELSE LET result == q.Data.Result
         IN  CASE result.type \in {"ResultScalar", "ResultString"} ->
                     scalarTable(result.val)
               [] result.type = "ResultVector" -> vectorTable(result.val, k)
               [] result.type = "ResultMatrix" -> matrixTable(result.val, k)
               [] OTHER -> Returned(EmptyTable)

\* The orders a call of buildTable may start from: every order of the
\* metric with the most keys.
MostKeys == CHOOSE n \in 0..Cardinality(LabelNames) :
                /\ \E K \in KeySets : Cardinality(K) = n
                /\ \A K \in KeySets : Cardinality(K) <= n
BuildOrders == 0 .. (Factorial(MostKeys) - 1)

\* ------------------------------------------------------- RunInteractive
Write(kind, arg) == [kind |-> kind, arg |-> arg]

NoTable == [none |-> TRUE]

\* The loop variables at the top of an iteration.
LoopTop ==
    /\ body = NoBody
    /\ qr = NoResponse
    /\ err = NoError
    /\ table = NoTable
    /\ out = <<>>

SortIdle ==
    /\ sLabels = <<>>
    /\ sOrder = <<>>
    /\ sResult = <<>>
    /\ sPc = "idle"

NoTasks == tasks = <<>>

DecodeIdle ==
    /\ dBody = NoBody
    /\ dCalls = <<>>
    /\ dOther = FALSE

Init ==
    /\ pc = "read"
    /\ LoopTop
    /\ SortIdle
    /\ NoTasks
    /\ DecodeIdle

\* input, err := c.ReadInput(rl): a query, "exit" or "quit", EOF, or a
\* read error. The variables of the iteration before are gone.
ReadInput ==
    /\ pc = "read"
    /\ body' = NoBody
    /\ qr' = NoResponse
    /\ err' = NoError
    /\ table' = NoTable
    /\ \E input \in {"query", "exit", "EOF", "error"} :
          CASE input = "query" -> pc' = "query" /\ out' = <<>>
            [] input \in {"exit", "EOF"} ->
                  pc' = "exited" /\ out' = <<Write("bye", "Bye")>>
            [] input = "error" ->
                  pc' = "exited" /\ out' = <<Write("error", <<"readline">>)>>
    /\ UNCHANGED sortVars
    /\ UNCHANGED decodeVars
    /\ UNCHANGED progressVars

\* resp, err := c.client.Query(input) against a backend that answers with
\* a body out of S: the request fails, or a body arrives and is decoded.
QueryFrom(S) ==
    /\ pc = "query"
    /\ \/ /\ body' = NoBody
          /\ qr' = NoResponse
          /\ err' = TransportError
       \/ \E b \in S :
             /\ body' = b
             /\ qr' = Query(b).qr
             /\ err' = Query(b).err
    /\ pc' = "stop"
    /\ UNCHANGED <<table, out>>
    /\ UNCHANGED sortVars
    /\ UNCHANGED decodeVars
    /\ UNCHANGED progressVars

DoQuery == QueryFrom(Bodies)

\* stop(): ticker.Stop() on the ticker of this iteration, then the
\* progressing mark is cleared. Nothing is sent to the goroutine and nothing
\* waits for it.
Stop ==
    /\ pc = "stop"
    /\ tasks' = IF tasks = <<>>
                THEN tasks
                ELSE [tasks EXCEPT ![Len(tasks)].stopped = TRUE]
    /\ out' = Append(out, Write("clear", "\r"))
    /\ pc' = IF err # NoError THEN "report" ELSE "build"
    /\ UNCHANGED <<body, qr, err, table>>
    /\ UNCHANGED sortVars
    /\ UNCHANGED decodeVars

\* return c.ExitOnError(err), as for an error of ReadInput.
ExitOnErrorInLoop ==
    /\ pc = "report"
    /\ out' = Append(out, Write("error", err.text))
    /\ pc' = "exited"
    /\ UNCHANGED <<body, qr, err, table>>
    /\ UNCHANGED sortVars
    /\ UNCHANGED decodeVars
    /\ UNCHANGED progressVars

\* c.PrintInteractiveError(err); continue
PrintInteractiveError ==
    /\ pc = "report"
    /\ out' = Append(out, Write("error", err.text))
    /\ pc' = "read"
    /\ UNCHANGED <<body, qr, err, table>>
    /\ UNCHANGED sortVars
    /\ UNCHANGED decodeVars
    /\ UNCHANGED progressVars

\* table := buildTable(resp): a table, or the process dies of a panic.
BuildTable ==
    /\ pc = "build"
    /\ \E k \in BuildOrders :
          LET r == buildTable(qr, k)
          IN  IF r.panic
              THEN pc' = "panicked" /\ table' = NoTable
              ELSE pc' = "render" /\ table' = r.table
    /\ UNCHANGED <<body, qr, err, out>>
    /\ UNCHANGED sortVars
    /\ UNCHANGED decodeVars
    /\ UNCHANGED progressVars

\* The table and its count, or "Empty result".
Render ==
    /\ pc = "render"
    /\ out' = IF Len(table.Rows) > 0
              THEN out \o <<Write("table", table), Write("count", Len(table.Rows))>>
              ELSE Append(out, Write("empty", "Empty result"))
    /\ pc' = "read"
    /\ UNCHANGED <<body, qr, err, table>>
    /\ UNCHANGED sortVars
    /\ UNCHANGED decodeVars
    /\ UNCHANGED progressVars

Next ==
    \/ ReadInput
    \/ DoQuery
    \/ Stop
    \/ PrintInteractiveError
    \/ BuildTable
    \/ Render

Spec == Init /\ [][Next]_vars

\* ------------------------------------------------------------- SortSpec
\* sortedLabelNames on its own: every label mapping of at most
\* MaxSortLabels names out of SortNames, visited in every order.
SortInit ==
    /\ pc = "read"
    /\ LoopTop
    /\ sLabels \in { Metric(K, 1) : K \in {S \in SUBSET SortNames :
                                              Cardinality(S) <= MaxSortLabels} }
    /\ sOrder = <<>>
    /\ sResult = <<>>
    /\ sPc = "call"
    /\ NoTasks
    /\ DecodeIdle

SortCall ==
    /\ sPc = "call"
    /\ \E k \in MapOrders(DOMAIN sLabels) :
          /\ sOrder' = MapRange(DOMAIN sLabels, k)
          /\ sResult' = sortedLabelNames(sLabels, k)
    /\ sPc' = "return"
    /\ UNCHANGED sLabels
    /\ UNCHANGED loopVars
    /\ UNCHANGED progressVars
    /\ UNCHANGED decodeVars

SortNext == SortCall

SortSpec == SortInit /\ [][SortNext]_vars

\* ---------------------------------------------------------- ProgressSpec
\* The loop together with PrintProgressingMark: every query starts a ticker
\* and a goroutine that prints a mark per tick. A session asks at most
\* MaxQueries queries and a ticker delivers at most MaxTicks ticks; the
\* backend answers with one of ProgressBodies or not at all.
progressMarks == <<"-", "\\", "|", "/">>

ProgressBodies ==
    { InvalidBody,
      Body("error", "bad query", Absent, AbsentPayload),
      Body("success", Absent, "histogram", ObjectsPayload(<<>>)),
      Body("success", Absent, "scalar", StringPayload),
      Body("success", Absent, "scalar", TuplePayload(GoodTuple(1, 1))),
      Body("success", Absent, "scalar", ObjectsPayload(<<>>)),
      Body("success", Absent, "vector", ObjectsPayload(<<>>)),
      Body("success", Absent, "vector",
           ObjectsPayload(<<SeriesObject(Metric({"job"}, 1),
                                        GoodTuple(1, 1), <<>>)>>)) }

\* The ticker of this iteration is running.
Running == tasks # <<>> /\ ~tasks[Len(tasks)].stopped

\* input, err := c.ReadInput(rl), in a session of at most MaxQueries queries.
ProgressReadInput ==
    /\ ReadInput
    /\ pc' = "query" => Len(tasks) < MaxQueries

\* stop := c.PrintProgressingMark(): a new ticker, and a new goroutine at
\* `<-ticker.C` with i = 0.
PrintProgressingMark ==
    /\ pc = "query"
    /\ ~Running
    /\ tasks' = Append(tasks, [pc |-> "receive", i |-> 0,
                               stopped |-> FALSE, buffered |-> FALSE])
    /\ UNCHANGED loopVars
    /\ UNCHANGED sortVars
    /\ UNCHANGED decodeVars

\* resp, err := c.client.Query(input), while the indicator runs.
ProgressQuery ==
    /\ Running
    /\ QueryFrom(ProgressBodies)

\* The ticker of goroutine t sends on ticker.C, a channel of capacity one.
\* A tick that finds the channel full is dropped.
Tick(t) ==
    /\ ~tasks[t].stopped
    /\ ~tasks[t].buffered
    /\ tasks[t].i + (IF tasks[t].pc = "print" THEN 1 ELSE 0) < MaxTicks
    /\ tasks' = [tasks EXCEPT ![t].buffered = TRUE]
    /\ UNCHANGED loopVars
    /\ UNCHANGED sortVars
    /\ UNCHANGED decodeVars

\* <-ticker.C in goroutine t.
ReceiveTick(t) ==
    /\ tasks[t].pc = "receive"
    /\ tasks[t].buffered
    /\ tasks' = [tasks EXCEPT ![t].buffered = FALSE, ![t].pc = "print"]
    /\ UNCHANGED loopVars
    /\ UNCHANGED sortVars
    /\ UNCHANGED decodeVars

\* fmt.Fprintf(c.out, "\r%s", mark); i++ in goroutine t, and back to the
\* top of its for loop, which has no exit.
PrintMark(t) ==
    /\ tasks[t].pc = "print"
    /\ out' = Append(out, Write("mark",
                  progressMarks[(tasks[t].i % Len(progressMarks)) + 1]))
    /\ tasks' = [tasks EXCEPT ![t].i = @ + 1, ![t].pc = "receive"]
    /\ UNCHANGED <<pc, body, qr, err, table>>
    /\ UNCHANGED sortVars
    /\ UNCHANGED decodeVars

ProgressNext ==
    \/ ProgressReadInput
    \/ PrintProgressingMark
    \/ ProgressQuery
    \/ Stop
    \/ PrintInteractiveError
    \/ BuildTable
    \/ Render
    \/ \E t \in DOMAIN tasks : Tick(t)
    \/ \E t \in DOMAIN tasks : ReceiveTick(t)
    \/ \E t \in DOMAIN tasks : PrintMark(t)

ProgressSpec == Init /\ [][ProgressNext]_vars

\* ------------------------------------------------------------ DecodeSpec
\* Decode-then-project on its own: one response body out of Bodies is
\* decoded and projected up to MaxCalls times, every time with its own map
\* iteration orders, with invocations on other bodies in between.

\* resp, err := c.client.Query(input) on body b, then buildTable(resp) if
\* err is nil, with map iteration orders starting at k.
DecodeThenProject(b, k) ==
    LET q == Query(b)
    IN  IF q.err # NoError
        THEN [err |-> q.err, panic |-> FALSE, table |-> EmptyTable]
        ELSE LET r == buildTable(q.qr, k)
             IN  [err |-> NoError, panic |-> r.panic, table |-> r.table]

DecodeInit ==
    /\ pc = "read"
    /\ LoopTop
    /\ SortIdle
    /\ NoTasks
    /\ dBody \in Bodies
    /\ dCalls = <<>>
    /\ dOther = FALSE

\* One more invocation on dBody.
Invoke ==
    /\ Len(dCalls) < MaxCalls
    /\ \E k \in BuildOrders :
          dCalls' = Append(dCalls, DecodeThenProject(dBody, k))
    /\ UNCHANGED <<dBody, dOther>>
    /\ UNCHANGED loopVars
    /\ UNCHANGED sortVars
    /\ UNCHANGED progressVars

\* An invocation on a different body. Query and buildTable write to nothing
\* but their own results, so it leaves nothing behind.
InvokeOther ==
    /\ ~dOther
    /\ \E b \in ProgressBodies \ {dBody} : \E k \in BuildOrders :
          DecodeThenProject(b, k).panic \in BOOLEAN
    /\ dOther' = TRUE
    /\ UNCHANGED <<dBody, dCalls>>
    /\ UNCHANGED loopVars
    /\ UNCHANGED sortVars
    /\ UNCHANGED progressVars

DecodeNext == Invoke \/ InvokeOther

DecodeSpec == DecodeInit /\ [][DecodeNext]_vars

\* ------------------------------------------------------ claims: helpers
\* The body is a decoded envelope (the first decode accepted it).
Decoded == body # NoBody /\ body.valid

\* buildTable has returned the table of this iteration's response.
Built == table # NoTable

\* A [number, string] tuple of exactly two elements.
WellFormedTuple(t) == Len(t) = 2 /\ t[1].t = "number" /\ t[2].t = "string"

\* The body is a successful response of the type rt whose payload is a
\* JSON array of n objects.
SeriesResponse(rt) ==
    /\ Decoded
    /\ body.status = "success"
    /\ body.resultType = rt
    /\ body.result.kind = "array"
    /\ body.result.prims = <<>>

\* names lists the keys K once each, "__name__" first, "le" last, the rest
\* ascending in between.
IsLabelOrder(names, K) ==
    /\ Len(names) = Cardinality(K)
    /\ {names[i] : i \in 1..Len(names)} = K
    /\ "__name__" \in K => names[1] = "__name__"
    /\ "le" \in K => names[Len(names)] = "le"
    /\ \A i, j \in 1..Len(names) :
          (i < j /\ {names[i], names[j]} \cap {"__name__", "le"} = {})
              => StringLess(names[i], names[j])

\* cells are the values of metric's labels, listed in label order.
IsLabelCells(cells, metric) ==
    \E k \in MapOrders(DOMAIN metric) :
        LET names == MapRange(DOMAIN metric, k)
        IN  /\ IsLabelOrder(names, DOMAIN metric)
            /\ cells = [n \in 1..Len(names) |-> metric[names[n]]]

\* The label cells of a row: all but the first and the last.
LabelCells(row) == SubSeq(row.Columns, 2, Len(row.Columns) - 1)

\* The value of label L in metric; a Go map yields "" for a missing key.
Lookup(metric, L) == IF L \in DOMAIN metric THEN metric[L] ELSE ""

\* The number of points of the series before series i.
RECURSIVE PointsBefore(_, _)
PointsBefore(objs, i) ==
    IF i <= 1 THEN 0 ELSE PointsBefore(objs, i - 1) + Len(objs[i - 1].values)

\* The metric of the sample or series each row of the table comes from.
RECURSIVE MatrixRowMetrics(_, _)
MatrixRowMetrics(objs, i) ==
    IF i > Len(objs) THEN <<>>
    ELSE [j \in 1..Len(objs[i].values) |-> objs[i].metric]
         \o MatrixRowMetrics(objs, i + 1)

RowMetrics ==
    IF body.resultType = "vector"
    THEN [i \in 1..Len(body.result.objs) |-> body.result.objs[i].metric]
    ELSE MatrixRowMetrics(body.result.objs, 1)

\* ---------------------------------------------------------------- C1
\* C1: in every table buildTable returns, every row has as many cells as
\* the header has columns.
C1_RowWidthIsHeaderWidth ==
    Built => \A i \in 1..Len(table.Rows) :
                 Len(table.Rows[i].Columns) = Len(table.Header)

\* ---------------------------------------------------------------- C2
\* C2: in a vector or matrix table, the cell of every row under every label
\* column L of the header is the value of label L in that row's own metric.
C2_CellUnderHeaderIsOwnLabel ==
    (Built /\ (SeriesResponse("vector") \/ SeriesResponse("matrix")))
        => \A i \in 1..Len(table.Rows) :
              \A c \in 2..(Len(table.Header) - 1) :
                  /\ c < Len(table.Rows[i].Columns)
                  /\ table.Rows[i].Columns[c] = Lookup(RowMetrics[i], table.Header[c])

\* ---------------------------------------------------------------- C3
\* C3: sortedLabelNames returns a permutation of the keys with "__name__"
\* first, "le" last and the other names ascending in between; the keys
\* {__name__, job, le, instance} give [__name__, instance, job, le].
C3_SortedLabelNames ==
    sPc = "return" =>
        /\ IsLabelOrder(sResult, DOMAIN sLabels)
        /\ DOMAIN sLabels = {"__name__", "job", "le", "instance"}
              => sResult = <<"__name__", "instance", "job", "le">>

\* sortedLabelNames returned after the map yielded le, job, __name__, instance.
C3_Witness ==
    /\ sPc = "return"
    /\ sOrder = <<"le", "job", "__name__", "instance">>
    /\ sResult = <<"__name__", "instance", "job", "le">>

\* ---------------------------------------------------------------- C4
\* The body is a successful vector response of well-formed samples.
VectorResponse ==
    /\ SeriesResponse("vector")
    /\ \A i \in 1..Len(body.result.objs) : WellFormedTuple(body.result.objs[i].value)

\* C4: a vector response of N >= 1 samples is projected, without an error,
\* to a table whose header is "timestamp", the sorted label names of the
\* first sample, "value", and which has N rows, the i-th made of the i-th
\* sample's formatted timestamp, label values and value; samples that share
\* the keys {instance, job, zone} give the header
\* [timestamp, instance, job, zone, value].
C4_VectorTable ==
    (VectorResponse /\ Len(body.result.objs) >= 1) =>
        LET objs == body.result.objs
        IN  /\ pc \notin {"report", "panicked"}
            /\ err = NoError
            /\ pc \in {"render", "read"} => Built
            /\ Built =>
                /\ Len(table.Header) = Cardinality(DOMAIN objs[1].metric) + 2
                /\ table.Header[1] = "timestamp"
                /\ table.Header[Len(table.Header)] = "value"
                /\ IsLabelOrder(SubSeq(table.Header, 2, Len(table.Header) - 1),
                                DOMAIN objs[1].metric)
                /\ (\A i \in 1..Len(objs) :
                        DOMAIN objs[i].metric = {"instance", "job", "zone"})
                      => table.Header = <<"timestamp", "instance", "job", "zone", "value">>
                /\ Len(table.Rows) = Len(objs)
                /\ \A i \in 1..Len(objs) :
                      LET row == table.Rows[i]
                      IN  /\ Len(row.Columns) = Cardinality(DOMAIN objs[i].metric) + 2
                          /\ row.Columns[1] = formatTimestamp(objs[i].value[1].num)
                          /\ row.Columns[Len(row.Columns)] = objs[i].value[2].str
                          /\ IsLabelCells(LabelCells(row), objs[i].metric)

\* A table was built from two samples that both carry instance, job and zone.
C4_Witness ==
    /\ VectorResponse
    /\ Len(body.result.objs) = 2
    /\ \A i \in 1..2 : DOMAIN body.result.objs[i].metric = {"instance", "job", "zone"}
    /\ Built
    /\ Len(table.Rows) = 2
    /\ table.Header = <<"timestamp", "instance", "job", "zone", "value">>

\* ---------------------------------------------------------------- C5
\* The body is a successful matrix response of well-formed points.
MatrixResponse ==
    /\ SeriesResponse("matrix")
    /\ \A i \in 1..Len(body.result.objs) :
          \A j \in 1..Len(body.result.objs[i].values) :
              WellFormedTuple(body.result.objs[i].values[j])

\* C5: a matrix response is projected, without an error, to a table with
\* one row per point: the rows of series i follow those of the series
\* before it, in point order; each carries its own point's timestamp and
\* value, and all rows of a series carry the series' label cells.
C5_MatrixTable ==
    MatrixResponse =>
        LET objs == body.result.objs
        IN  /\ pc \notin {"report", "panicked"}
            /\ err = NoError
            /\ pc \in {"render", "read"} => Built
            /\ Built =>
                /\ Len(table.Rows) = PointsBefore(objs, Len(objs) + 1)
                /\ \A i \in 1..Len(objs) :
                      \A j \in 1..Len(objs[i].values) :
                          LET row == table.Rows[PointsBefore(objs, i) + j]
                              first == table.Rows[PointsBefore(objs, i) + 1]
                          IN  /\ row.Columns[1] = formatTimestamp(objs[i].values[j][1].num)
                              /\ row.Columns[Len(row.Columns)] = objs[i].values[j][2].str
                              /\ IsLabelCells(LabelCells(row), objs[i].metric)
                              /\ LabelCells(row) = LabelCells(first)

\* A table of three rows was built from a series of two points and a
\* series of one point.
C5_Witness ==
    /\ MatrixResponse
    /\ Len(body.result.objs) = 2
    /\ Len(body.result.objs[1].values) = 2
    /\ Len(body.result.objs[2].values) = 1
    /\ DOMAIN body.result.objs[1].metric = {"job", "le"}
    /\ Built
    /\ Len(table.Rows) = 3

\* ---------------------------------------------------------------- C6
\* The body is a successful scalar or string response: [number, string].
ScalarOrStringResponse ==
    /\ Decoded
    /\ body.status = "success"
    /\ body.resultType \in {"scalar", "string"}
    /\ body.result.kind = "array"
    /\ body.result.objs = <<>>
    /\ WellFormedTuple(body.result.prims)

\* C6: a valid scalar or string response is decoded without an error and
\* projected to the header [timestamp, value] and one row of two cells,
\* the formatted timestamp and the backend's value string.
C6_ScalarStringTable ==
    ScalarOrStringResponse =>
        /\ err = NoError
        /\ qr # NoResponse
        /\ pc \notin {"report", "panicked"}
        /\ pc \in {"render", "read"} => Built
        /\ Built =>
              table = [Header |-> <<"timestamp", "value">>,
                       Rows |-> << [Columns |->
                                      <<formatTimestamp(body.result.prims[1].num),
                                        body.result.prims[2].str>>] >>]

\* The string response [11.1234567, "NaN"] was projected: the timestamp
\* cell shows second 11 and the fraction .123456, the value cell "NaN".
C6_Witness ==
    /\ ScalarOrStringResponse
    /\ body.resultType = "string"
    /\ body.result.prims = <<JNum(111234567), JStr("NaN")>>
    /\ Built
    /\ table.Rows = << [Columns |-> <<[sec |-> 11, frac |-> <<1, 2, 3, 4, 5, 6>>],
                                       "NaN">>] >>

\* ---------------------------------------------------------------- C7
\* The body is a decoded envelope whose status is error.
ErrorResponse == Decoded /\ body.status = "error"

TableWrites == {"table", "count", "empty"}

\* The error reports among the writes of this iteration.
IsErrorWrite(w) == w.kind = "error"
ErrorWrites == SelectSeq(out, IsErrorWrite)

\* C7: for a body whose status is error, whatever its resultType and
\* result, Query returns no QueryResponse and an error whose text is the
\* backend's message; the CLI reports that message and writes no table.
C7_BackendError ==
    ErrorResponse =>
        /\ qr = NoResponse
        /\ err # NoError
        /\ err.text = <<FieldOf(body.error)>>
        /\ pc \in {"stop", "report", "read"}
        /\ ~Built
        /\ \A i \in 1..Len(out) : out[i].kind \notin TableWrites
        /\ pc = "read" => ErrorWrites = <<Write("error", <<FieldOf(body.error)>>)>>

\* "bad query" was reported for an error body that names a vector result
\* and carries a sample.
C7_Witness ==
    /\ ErrorResponse
    /\ body.error = "bad query"
    /\ body.resultType = "vector"
    /\ body.result.objs # <<>>
    /\ pc = "read"
    /\ ErrorWrites = <<Write("error", <<"bad query">>)>>

\* ---------------------------------------------------------------- C8
\* The body is a decoded envelope whose resultType is none of the four.
UnknownResultType ==
    Decoded /\ body.resultType \notin {"scalar", "string", "vector", "matrix"}

UnsupportedOutcome ==
    /\ qr = NoResponse
    /\ err # NoError
    /\ err.at = "unsupported"
    /\ err.text = <<"unsupported result type: ", FieldOf(body.resultType)>>
    /\ pc \in {"stop", "report", "read"}
    /\ ~Built
    /\ \A i \in 1..Len(out) : out[i].kind \notin TableWrites

\* C8 as stated: a response whose resultType is none of scalar, string,
\* vector, matrix always ends in the unsupported-result-type error.
C8_UnknownTypeAlwaysUnsupported == UnknownResultType => UnsupportedOutcome

\* C8 as amended: a response whose status is not error and whose resultType
\* is none of scalar, string, vector, matrix ends in the
\* unsupported-result-type error: no QueryResponse, no table, no panic.
C8_UnknownTypeUnsupportedUnlessError ==
    (UnknownResultType /\ body.status # "error") => UnsupportedOutcome

\* The error for resultType "histogram" was reported.
C8_Witness ==
    /\ UnknownResultType
    /\ body.status = "success"
    /\ body.resultType = "histogram"
    /\ pc = "read"
    /\ ErrorWrites = <<Write("error", <<"unsupported result type: ", "histogram">>)>>

\* ---------------------------------------------------------------- C9
\* C9: for every QueryResponse that Query returns without an error,
\* buildTable returns a table: it does not panic.
C9_BuildTableNeverPanics == qr # NoResponse => pc # "panicked"

\* --------------------------------------------------------------- C10
\* The body lacks status, data.resultType or data.result.
LacksEnvelopeField ==
    /\ Decoded
    /\ \/ body.status = Absent
       \/ body.resultType = Absent
       \/ body.result.kind = "absent"

\* The decoded Result has the Go type that the body's resultType names.
DecodedIntoNamedShape ==
    qr.Data.Result.type =
        CASE body.resultType = "scalar" -> "ResultScalar"
          [] body.resultType = "string" -> "ResultString"
          [] body.resultType = "vector" -> "ResultVector"
          [] body.resultType = "matrix" -> "ResultMatrix"
          [] OTHER -> "none"

\* C10: a body that is not valid JSON or that lacks status, data.resultType
\* or data.result fails with an error and yields no QueryResponse; a
\* QueryResponse is returned only for a body with status success whose
\* payload decoded into the shape resultType names.
C10_MalformedBodyFails ==
    /\ (body # NoBody /\ (~body.valid \/ LacksEnvelopeField))
          => (err # NoError /\ qr = NoResponse)
    /\ qr # NoResponse
          => (Decoded /\ body.status = "success" /\ DecodedIntoNamedShape)

\* --------------------------------------------------------------- C11
\* The writes of the current iteration that are progress marks.
IsMark(w) == w.kind = "mark"

\* stop() has returned in the current iteration and the loop has not yet
\* read the next input.
StopReturned == pc \in {"report", "build", "render", "panicked"}

\* C11: no progress mark is written after stop() has returned: in the
\* writes of an iteration every mark comes before the clearing write and
\* before every write of the table or of the error report, so whatever
\* precedes a mark is a mark.
C11_NoMarkAfterStop ==
    \A j \in DOMAIN out :
        IsMark(out[j]) => \A i \in 1..(j - 1) : IsMark(out[i])

\* --------------------------------------------------------------- C12
\* Query returned an error in the current iteration.
QueryFailed == err # NoError

\* From the return of Query to the next read of input, a failed query is
\* at stop(), at the report, or back at the top of the loop: it is never
\* projected or rendered and never ends the session.
FailedQueryStaysInLoop ==
    QueryFailed => pc \in {"stop", "report", "read"}

\* The error is reported exactly once, with the text of err.
ReportedOnce ==
    QueryFailed =>
        ErrorWrites = IF pc = "read" THEN <<Write("error", err.text)>> ELSE <<>>

\* The step of the loop that leaves the report goes to the next read of
\* input with the iteration's variables as they were.
ReportThenRead ==
    (pc = "report" /\ pc' # pc) =>
        /\ pc' = "read"
        /\ <<body', qr', err', table'>> = <<body, qr, err, table>>

\* Query is called only in an iteration that has no error yet, that is once
\* per input read.
NoReissue ==
    (pc = "query" /\ pc' = "stop") => (~QueryFailed /\ body = NoBody)

\* C12: whenever Query returns an error of any kind the CLI reports it
\* once, does not reissue that query and proceeds to read the next input;
\* no query error ends the session.
C12_QueryErrorReportedOnce ==
    /\ [](FailedQueryStaysInLoop /\ ReportedOnce)
    /\ [][ReportThenRead /\ NoReissue]_vars

\* A transport error was reported once, after a progress mark, and the loop
\* is back at the read of the next input.
C12_Witness ==
    /\ pc = "read"
    /\ QueryFailed
    /\ err = TransportError
    /\ ErrorWrites = <<Write("error", err.text)>>
    /\ \E j \in DOMAIN out : IsMark(out[j])
    /\ Len(tasks) < MaxQueries

\* --------------------------------------------------------------- C13
\* C13: decode-then-project is deterministic and stateless: any two
\* invocations on the same response body, whatever the map iteration orders
\* of each and whatever was decoded in between, end the same way (the same
\* error, or the same panic, or tables with the same header and the same
\* rows).
C13_SameBodySameTable ==
    \A i, j \in DOMAIN dCalls : dCalls[i] = dCalls[j]

\* Two invocations on a matrix response whose first series has three
\* labels, with another body decoded as well, both returned a table.
C13_Witness ==
    /\ Len(dCalls) = 2
    /\ dOther
    /\ dBody.valid
    /\ dBody.resultType = "matrix"
    /\ dBody.result.objs # <<>>
    /\ DOMAIN dBody.result.objs[1].metric = {"__name__", "job", "le"}
    /\ \A i \in 1..2 :
          /\ dCalls[i].err = NoError
          /\ ~dCalls[i].panic
          /\ dCalls[i].table.Header = <<"timestamp", "__name__", "job", "le", "value">>
          /\ Len(dCalls[i].table.Rows) >= 1

\* --------------------------------------------------------------- C14
\* The goroutines that have not returned. The goroutine's for loop has no
\* return, so no task ever leaves these two positions.
AliveTasks == { t \in DOMAIN tasks : tasks[t].pc \in {"receive", "print"} }

\* C14: the indicator task is joined before the result is written: once
\* stop() has returned no indicator task is alive, and at most one is alive
\* at any time.
C14_IndicatorJoined ==
    /\ StopReturned => AliveTasks = {}
    /\ Cardinality(AliveTasks) <= 1
====
